---------------------------- MODULE Spec2Model ----------------------------
(***************************************************************************)
(* Model of emodelrunner/create_hoc_tools.py: the construction of a        *)
(* HocStimuliCreator from a mapping of protocol definitions.               *)
(*                                                                         *)
(* Python strings are sequences of one-character strings wherever the code *)
(* inspects them (extra_recs_vars is split on ", "); the hoc text that is  *)
(* only ever appended to is kept as the sequence of the fragments          *)
(* appended, each fragment a record of the values substituted into its     *)
(* template.  A dict is a record; `"k" in d` is "k" \in DOMAIN d.          *)
(***************************************************************************)
EXTENDS Integers, Sequences, FiniteSets, TLC

(***************************************************************************)
(* Bounds of the model.                                                    *)
(***************************************************************************)
MaxProts == 3        \* protocols in a mapping (specification Spec)
MaxStepEntries == 2  \* entries of a "step" list
MaxRecProts == 2     \* protocols in a mapping (specification SpecRecs)
MaxExtraRecs == 2    \* extra-recording entries in a mapping (SpecRecs)

(***************************************************************************)
(* Strings.                                                                *)
(***************************************************************************)
Sep == <<",", " ">>

\* str.split(sep) for a non-empty sep: the pieces between the leftmost,
\* non-overlapping occurrences of sep; cur is the piece being read
RECURSIVE SplitAcc(_, _, _)
SplitAcc(s, sep, cur) ==
    IF s = <<>> THEN <<cur>>
    ELSE IF Len(s) >= Len(sep) /\ SubSeq(s, 1, Len(sep)) = sep
         THEN <<cur>> \o SplitAcc(SubSeq(s, Len(sep) + 1, Len(s)), sep, <<>>)
         ELSE SplitAcc(Tail(s), sep, Append(cur, Head(s)))

\* str.split(", ")
Split(s) == SplitAcc(s, Sep, <<>>)

\* x in list
InList(x, list) == \E i \in 1..Len(list) : list[i] = x

Max(a, b) == IF a > b THEN a ELSE b

(***************************************************************************)
(* add_extra_recs: the registry is the pair (extra_recs_vars, extra_recs). *)
(***************************************************************************)
\* the fragment appended to extra_recs for one entry (none for another type)
extra_rec_hoc(extra_rec, apical) ==
    IF extra_rec.type = "nrnseclistcomp"
    THEN << [name |-> extra_rec.name, record |-> "nrnseclistcomp",
             seclist_name |-> extra_rec.seclist_name, var |-> extra_rec.var,
             args |-> <<extra_rec.sec_index, extra_rec.comp_x>>] >>
    ELSE IF extra_rec.type = "somadistance"
    THEN << [name |-> extra_rec.name, record |-> "somadistance",
             seclist_name |-> extra_rec.seclist_name, var |-> extra_rec.var,
             args |-> <<extra_rec.somadistance>>] >>
    ELSE IF extra_rec.type = "somadistanceapic"
    THEN << [name |-> extra_rec.name, record |-> "somadistanceapic",
             seclist_name |-> <<"apical_branch">>, var |-> extra_rec.var,
             args |-> <<apical, extra_rec.somadistance>>] >>
    ELSE << >>

\* faulty variant: the registry split on "," alone
name_is_new_comma(name, vars) == ~InList(name, SplitAcc(vars, <<",">>, <<>>))

\* the test of line 94
name_is_new(name, vars) == ~InList(name, Split(vars))

\* one iteration of the loop of add_extra_recs
add_extra_rec(reg, extra_rec, apical) ==
    IF name_is_new(extra_rec.name, reg.vars)
    THEN [vars |-> reg.vars \o Sep \o extra_rec.name,
          recs |-> reg.recs \o extra_rec_hoc(extra_rec, apical)]
    ELSE reg

RECURSIVE add_extra_recs(_, _, _)
add_extra_recs(reg, extra_recs_list, apical) ==
    IF extra_recs_list = <<>> THEN reg
    ELSE add_extra_recs(add_extra_rec(reg, Head(extra_recs_list), apical),
                        Tail(extra_recs_list), apical)

\* faulty variant: the extra recordings merged only for the protocols that are
\* always dispatched
merge_extra_recs_dispatched(reg, prot, apical) ==
    IF "extra_recordings" \in DOMAIN prot
       /\ "type" \in DOMAIN prot
       /\ prot.type \in {"StepProtocol", "RampProtocol"}
    THEN add_extra_recs(reg, prot.extra_recordings, apical)
    ELSE reg

\* lines 56-57
merge_extra_recs(reg, prot, apical) ==
    IF "extra_recordings" \in DOMAIN prot
    THEN add_extra_recs(reg, prot.extra_recordings, apical)
    ELSE reg

(***************************************************************************)
(* add_save_recordings_hoc                                                 *)
(***************************************************************************)
soma_path(m, prot_name) ==
    <<"hoc_recordings/">> \o m \o <<".">> \o prot_name \o <<".soma.v.dat">>

\* faulty variant: the name and the variable exchanged in the path
extra_path_swapped(m, prot_name, name, var) ==
    <<"hoc_recordings/">> \o m \o <<".">> \o prot_name \o <<".">> \o var
        \o <<".">> \o name \o <<".dat">>

extra_path(m, prot_name, name, var) ==
    <<"hoc_recordings/">> \o m \o <<".">> \o prot_name \o <<".">> \o name
        \o <<".">> \o var \o <<".dat">>

extra_writes(m, prot_name, prot) ==
    IF "extra_recordings" \in DOMAIN prot
    THEN [k \in 1..Len(prot.extra_recordings) |->
            [path |-> extra_path(m, prot_name, prot.extra_recordings[k].name,
                                 prot.extra_recordings[k].var),
             col |-> prot.extra_recordings[k].name]]
    ELSE << >>

\* faulty variant: the guard taken before n_stims is incremented
save_recordings_hoc_stale(m, prot_name, prot, n) ==
    [guard |-> n - 1,
     writes |-> << [path |-> soma_path(m, prot_name), col |-> <<"voltage">>] >>
                  \o extra_writes(m, prot_name, prot)]

save_recordings_hoc(m, prot_name, prot, n) ==
    [guard |-> n,
     writes |-> << [path |-> soma_path(m, prot_name), col |-> <<"voltage">>] >>
                  \o extra_writes(m, prot_name, prot)]

(***************************************************************************)
(* The stimulus fragments.                                                 *)
(***************************************************************************)
holding_hoc(stimuli) ==
    IF "holding" \in DOMAIN stimuli
    THEN << [dur |-> stimuli.holding.duration, del |-> stimuli.holding.delay,
             amp |-> stimuli.holding.amp] >>
    ELSE << >>

\* lines 167-169
step_definitions(prot) ==
    IF "dict" \in DOMAIN prot.stimuli.step
    THEN << prot.stimuli.step.dict >>
    ELSE prot.stimuli.step.list

get_step_hoc(prot) ==
    LET defs == step_definitions(prot)
    IN [kind |-> "step",
        holding |-> holding_hoc(prot.stimuli),
        steps |-> [k \in 1..Len(defs) |->
                     [i |-> k - 1, dur |-> defs[k].duration,
                      del |-> defs[k].delay, amp |-> defs[k].amp]],
        tstop |-> defs[1].totduration]

\* faulty variant: the count of the last StepProtocol instead of the largest
step_max_steps_last(old, prot) == Len(step_definitions(prot))

\* faulty variant: the count of the first StepProtocol instead of the largest
step_max_steps_first(old, prot) ==
    IF old = 0 THEN Len(step_definitions(prot)) ELSE old

\* lines 170-172: max_steps after the loop over the step definitions
step_max_steps(old, prot) == Max(old, Len(step_definitions(prot)))

\* faulty variant: the ramp ends at its duration instead of delay + duration
get_ramp_hoc_noshift(prot) ==
    LET r == prot.stimuli.ramp
    IN [kind |-> "ramp",
        holding |-> holding_hoc(prot.stimuli),
        ramp_times |-> <<0, r.ramp_delay, r.ramp_delay, r.ramp_duration,
                         r.ramp_duration, r.totduration>>,
        ramp_amps |-> <<0, 0, r.ramp_amplitude_start, r.ramp_amplitude_end,
                        0, 0>>,
        dur |-> r.totduration,
        tstop |-> r.totduration]

get_ramp_hoc(prot) ==
    LET r == prot.stimuli.ramp
    IN [kind |-> "ramp",
        holding |-> holding_hoc(prot.stimuli),
        ramp_times |-> <<0, r.ramp_delay, r.ramp_delay,
                         r.ramp_delay + r.ramp_duration,
                         r.ramp_delay + r.ramp_duration, r.totduration>>,
        ramp_amps |-> <<0, 0, r.ramp_amplitude_start, r.ramp_amplitude_end,
                        0, 0>>,
        dur |-> r.totduration,
        tstop |-> r.totduration]

get_vecstim_hoc(prot) ==
    LET stim == prot.stimuli
    IN [kind |-> "vecstim",
        tstop |-> stim.syn_stop,
        create_netcons |-> <<0, stim.syn_start, stim.syn_stop, 0, 0, 0,
                             stim.syn_stim_seed>>]

get_netstim_hoc(prot) ==
    LET stim == prot.stimuli
    IN [kind |-> "netstim",
        tstop |-> stim.syn_stop,
        create_netcons |-> <<1, stim.syn_start, stim.syn_stop,
                             stim.syn_interval, stim.syn_nmb_of_spikes,
                             stim.syn_noise, 0>>]

get_stim_hoc(n, body) == [guard |-> n, body |-> body]

\* faulty variant: range(self.max_steps), without the floor of 1
get_reset_step_nofloor(m) ==
    [k \in 1..m |-> [i |-> k - 1, dur |-> 0, del |-> 0, amp |-> 0]]

get_reset_step(m) ==
    [k \in 1..Max(m, 1) |-> [i |-> k - 1, dur |-> 0, del |-> 0, amp |-> 0]]

get_init_step(m) == [k \in 1..Max(m, 1) |-> k - 1]

(***************************************************************************)
(* The dispatch of __init__ (the if/elif chain of lines 59-82).            *)
(***************************************************************************)
prot_type(prot) == IF "type" \in DOMAIN prot THEN prot.type ELSE "<none>"

\* faulty variant: Vecstim and Netstim dispatched whatever add_synapses is
branch_ignoring_synapses(prot, syn) ==
    IF prot_type(prot) = "StepProtocol" THEN "step"
    ELSE IF prot_type(prot) = "RampProtocol" THEN "ramp"
    ELSE IF prot_type(prot) = "Vecstim" THEN "vecstim"
    ELSE IF prot_type(prot) = "Netstim" THEN "netstim"
    ELSE "skip"

branch(prot, syn) ==
    IF prot_type(prot) = "StepProtocol" THEN "step"
    ELSE IF prot_type(prot) = "RampProtocol" THEN "ramp"
    ELSE IF prot_type(prot) = "Vecstim" /\ syn THEN "vecstim"
    ELSE IF prot_type(prot) = "Netstim" /\ syn THEN "netstim"
    ELSE "skip"

\* the keys a record must hold for the lookups of a fragment to succeed
HasKeys(d, keys) == keys \subseteq DOMAIN d

StepKeys == {"duration", "delay", "amp"}
HoldKeys == {"duration", "delay", "amp"}
RampKeys == {"ramp_delay", "ramp_amplitude_start", "ramp_duration",
             "ramp_amplitude_end", "totduration"}
VecstimKeys == {"syn_stop", "syn_start", "syn_stim_seed"}
NetstimKeys == {"syn_stop", "syn_start", "syn_interval", "syn_nmb_of_spikes",
                "syn_noise"}

\* faulty variant: a missing "step" read as an empty list of steps
lookup_error_step_default(prot, b) ==
    IF b = "skip" THEN ""
    ELSE IF "stimuli" \notin DOMAIN prot THEN "KeyError"
    ELSE IF b = "step" THEN
        IF "step" \notin DOMAIN prot.stimuli THEN "IndexError"
        ELSE IF step_definitions(prot) = <<>> THEN "IndexError"
        ELSE ""
    ELSE IF b = "ramp" THEN
        IF "ramp" \notin DOMAIN prot.stimuli THEN "KeyError" ELSE ""
    ELSE IF b = "vecstim" THEN
        IF ~HasKeys(prot.stimuli, VecstimKeys) THEN "KeyError" ELSE ""
    ELSE IF ~HasKeys(prot.stimuli, NetstimKeys) THEN "KeyError" ELSE ""

\* the exception the fragment builder of the branch raises, "" when none
lookup_error(prot, b) ==
    IF b = "skip" THEN ""
    ELSE IF "stimuli" \notin DOMAIN prot THEN "KeyError"
    ELSE IF b \in {"step", "ramp"} /\ "holding" \in DOMAIN prot.stimuli
            /\ ~HasKeys(prot.stimuli.holding, HoldKeys) THEN "KeyError"
    ELSE IF b = "step" THEN
        IF "step" \notin DOMAIN prot.stimuli THEN "KeyError"
        ELSE IF \E k \in 1..Len(step_definitions(prot)) :
                   ~HasKeys(step_definitions(prot)[k], StepKeys) THEN "KeyError"
        ELSE IF step_definitions(prot) = <<>> THEN "IndexError"
        ELSE IF "totduration" \notin DOMAIN step_definitions(prot)[1]
             THEN "KeyError"
        ELSE ""
    ELSE IF b = "ramp" THEN
        IF "ramp" \notin DOMAIN prot.stimuli THEN "KeyError"
        ELSE IF ~HasKeys(prot.stimuli.ramp, RampKeys) THEN "KeyError"
        ELSE ""
    ELSE IF b = "vecstim" THEN
        IF ~HasKeys(prot.stimuli, VecstimKeys) THEN "KeyError" ELSE ""
    ELSE IF ~HasKeys(prot.stimuli, NetstimKeys) THEN "KeyError" ELSE ""

stim_body(prot, b) ==
    IF b = "step" THEN get_step_hoc(prot)
    ELSE IF b = "ramp" THEN get_ramp_hoc(prot)
    ELSE IF b = "vecstim" THEN get_vecstim_hoc(prot)
    ELSE get_netstim_hoc(prot)


\* max_steps as get_step_hoc leaves it when it raises (lines 156-182)
failing_max_steps(old, prot) ==
    IF "stimuli" \notin DOMAIN prot THEN old
    ELSE IF "holding" \in DOMAIN prot.stimuli
            /\ ~HasKeys(prot.stimuli.holding, HoldKeys) THEN old
    ELSE IF "step" \notin DOMAIN prot.stimuli THEN old
    ELSE LET defs == step_definitions(prot)
             bad == {k \in 1..Len(defs) : ~HasKeys(defs[k], StepKeys)}
         IN IF bad = {} THEN Max(old, Len(defs))
            ELSE Max(old, CHOOSE k \in bad : \A j \in bad : k <= j)

(***************************************************************************)
(* The inputs: protocol definitions.                                       *)
(***************************************************************************)
Digits == <<"1", "2", "3", "4", "5", "6", "7", "8", "9">>

\* the key of the i-th item of the mapping (keys of a dict are distinct)
prot_name(i) == <<"p", Digits[i]>>

StepDefAt(k) ==
    [duration |-> 50, delay |-> 10 * k, amp |-> k, totduration |-> 100 * k]

HoldDef == [duration |-> 100, delay |-> 0, amp |-> -1]

\* amplitudes in units of 0.1 nA
RampExample ==
    [ramp_delay |-> 10, ramp_amplitude_start |-> 1, ramp_duration |-> 20,
     ramp_amplitude_end |-> 5, totduration |-> 50]

RampOther ==
    [ramp_delay |-> 5, ramp_amplitude_start |-> 2, ramp_duration |-> 0,
     ramp_amplitude_end |-> -3, totduration |-> 30]

VecstimStimuli == [syn_start |-> 5, syn_stop |-> 40, syn_stim_seed |-> 7]

NetstimStimuli ==
    [syn_start |-> 3, syn_stop |-> 60, syn_interval |-> 4,
     syn_nmb_of_spikes |-> 6, syn_noise |-> 1]

StepList(n) == [list |-> [k \in 1..n |-> StepDefAt(k)]]

StepStimuli ==
    {[step |-> [dict |-> StepDefAt(2)]]}
    \cup {[step |-> StepList(n)] : n \in 0..MaxStepEntries}
    \cup {[step |-> StepList(1), holding |-> HoldDef]}
    \cup {[holding |-> HoldDef]}

RampStimuli ==
    {[ramp |-> RampExample], [ramp |-> RampOther, holding |-> HoldDef],
     [holding |-> HoldDef]}

NameA == <<"a">>
NameComma == <<"a", ",">>
NameEmpty == << >>
NameWithSep == <<"a", ",", " ", "b">>

RecA ==
    [name |-> NameA, seclist_name |-> <<"apical">>, var |-> <<"v">>,
     type |-> "nrnseclistcomp", sec_index |-> 1, comp_x |-> 5]
RecA2 ==
    [name |-> NameA, seclist_name |-> <<"basal">>, var |-> <<"cai">>,
     type |-> "somadistance", somadistance |-> 100]
RecB ==
    [name |-> NameComma, seclist_name |-> <<"apical">>, var |-> <<"v">>,
     type |-> "somadistanceapic", somadistance |-> 200]
RecOther ==
    [name |-> NameA, seclist_name |-> <<"basal">>, var |-> <<"cai">>,
     type |-> "unknown"]
RecEmpty ==
    [name |-> NameEmpty, seclist_name |-> <<"apical">>, var |-> <<"v">>,
     type |-> "nrnseclistcomp", sec_index |-> 0, comp_x |-> 5]
RecWithSep ==
    [name |-> NameWithSep, seclist_name |-> <<"basal">>, var |-> <<"v">>,
     type |-> "somadistance", somadistance |-> 50]

WithRecs(prot, recs) ==
    [type |-> prot.type, stimuli |-> prot.stimuli, extra_recordings |-> recs]

StepOK == [type |-> "StepProtocol", stimuli |-> [step |-> [dict |-> StepDefAt(1)]]]
VecstimOK == [type |-> "Vecstim", stimuli |-> VecstimStimuli]

ProtSet ==
    {[type |-> "StepProtocol", stimuli |-> s] : s \in StepStimuli}
    \cup {[type |-> "RampProtocol", stimuli |-> s] : s \in RampStimuli}
    \cup {VecstimOK, [type |-> "Vecstim"],
          [type |-> "Netstim", stimuli |-> NetstimStimuli,
           extra_recordings |-> <<RecB>>],
          [type |-> "Analysis"], [stimuli |-> [holding |-> HoldDef]],
          WithRecs(StepOK, <<RecA, RecB>>), WithRecs(VecstimOK, <<RecA2>>)}

\* the mappings of at most n protocols taken from S
RECURSIVE SeqsUpTo(_, _)
SeqsUpTo(S, n) ==
    IF n = 0 THEN {<< >>}
    ELSE LET shorter == SeqsUpTo(S, n - 1)
         IN shorter \cup {Append(q, x) : q \in {r \in shorter : Len(r) = n - 1}, x \in S}

ExtraRecSet == {RecA, RecA2, RecB, RecOther, RecEmpty, RecWithSep}

\* the extra_recordings lists of exactly n entries
RECURSIVE RecLists(_)
RecLists(n) ==
    IF n = 0 THEN {<< >>}
    ELSE {<<e>> \o l : e \in ExtraRecSet, l \in RecLists(n - 1)}

\* the protocols of SpecRecs that carry exactly n extra recordings
RecProts(n) ==
    (IF n = 0 THEN {StepOK, VecstimOK} ELSE {})
    \cup {WithRecs(p, l) : p \in {StepOK, VecstimOK}, l \in RecLists(n)}

\* the mappings of at most k protocols carrying at most b extra recordings
RECURSIVE RecMaps(_, _)
RecMaps(k, b) ==
    IF k = 0 THEN {<< >>}
    ELSE {<< >>} \cup UNION {
            {<<p>> \o rest : p \in RecProts(n), rest \in RecMaps(k - 1, b - n)}
            : n \in 0..b}

(***************************************************************************)
(* The state: the arguments of __init__, the attributes of the object      *)
(* under construction, and the position of __init__ in its loop.           *)
(***************************************************************************)
VARIABLES
    prot_definitions,    \* the mapping, as the sequence of its values in order
    mtype,
    add_synapses,
    apical_point_isec,
    n_stims,
    max_steps,
    reset_step_stimuli,
    init_step_stimuli,
    stims_hoc,
    save_recs,
    extra_recs_vars,
    extra_recs,
    it,                  \* the item of prot_definitions the loop is about to process
    pc,                  \* "loop", "done" (__init__ returned) or "raised"
    exception            \* the exception __init__ raised, "" when none

vars == <<prot_definitions, mtype, add_synapses, apical_point_isec, n_stims,
          max_steps, reset_step_stimuli, init_step_stimuli, stims_hoc,
          save_recs, extra_recs_vars, extra_recs, it, pc, exception>>

inputs == <<prot_definitions, mtype, add_synapses, apical_point_isec>>

\* lines 46-54
InitAttributes ==
    /\ n_stims = 0
    /\ max_steps = 0
    /\ reset_step_stimuli = << >>
    /\ init_step_stimuli = << >>
    /\ stims_hoc = << >>
    /\ save_recs = << >>
    /\ extra_recs_vars = << >>
    /\ extra_recs = << >>
    /\ it = 1
    /\ pc = "loop"
    /\ exception = ""

Init ==
    /\ prot_definitions \in SeqsUpTo(ProtSet, MaxProts)
    /\ mtype = <<"L", "5", "P", "C">>
    /\ add_synapses \in BOOLEAN
    /\ apical_point_isec = -1
    /\ InitAttributes

InitRecs ==
    /\ \/ prot_definitions \in
             {<< >>, <<[type |-> "RampProtocol", stimuli |-> [holding |-> HoldDef]]>>}
       \/ \E n \in 0..MaxExtraRecs :
             LET first == RecProts(n)
             IN \E rest \in RecMaps(MaxRecProts - 1, MaxExtraRecs - n) :
                   \E p \in first : prot_definitions = <<p>> \o rest
    /\ mtype = <<"L", "5", "P", "C">>
    /\ add_synapses \in BOOLEAN
    /\ apical_point_isec = 2
    /\ InitAttributes

current == prot_definitions[it]

registry == [vars |-> extra_recs_vars, recs |-> extra_recs]

\* one iteration of the loop of lines 55-82 that raises nothing
IterateProtocol ==
    /\ pc = "loop"
    /\ it <= Len(prot_definitions)
    /\ LET prot == current
           b == branch(prot, add_synapses)
           reg == merge_extra_recs(registry, prot, apical_point_isec)
       IN /\ lookup_error(prot, b) = ""
          /\ extra_recs_vars' = reg.vars
          /\ extra_recs' = reg.recs
          /\ IF b = "skip"
             THEN UNCHANGED <<n_stims, max_steps, stims_hoc, save_recs>>
             ELSE /\ n_stims' = n_stims + 1
                  /\ max_steps' = IF b = "step"
                                  THEN step_max_steps(max_steps, prot)
                                  ELSE max_steps
                  /\ stims_hoc' = Append(stims_hoc,
                                         get_stim_hoc(n_stims + 1, stim_body(prot, b)))
                  /\ save_recs' = Append(save_recs,
                                         save_recordings_hoc(mtype, prot_name(it),
                                                             prot, n_stims + 1))
    /\ it' = it + 1
    /\ UNCHANGED <<inputs, reset_step_stimuli, init_step_stimuli, pc, exception>>

\* an iteration in which the fragment builder raises: __init__ is left at once
RaiseLookupError ==
    /\ pc = "loop"
    /\ it <= Len(prot_definitions)
    /\ LET prot == current
           b == branch(prot, add_synapses)
           reg == merge_extra_recs(registry, prot, apical_point_isec)
       IN /\ lookup_error(prot, b) # ""
          /\ exception' = lookup_error(prot, b)
          /\ extra_recs_vars' = reg.vars
          /\ extra_recs' = reg.recs
          /\ n_stims' = n_stims + 1
          /\ max_steps' = IF b = "step" THEN failing_max_steps(max_steps, prot)
                          ELSE max_steps
    /\ pc' = "raised"
    /\ UNCHANGED <<inputs, reset_step_stimuli, init_step_stimuli, stims_hoc,
                   save_recs, it>>

\* lines 84-85, then __init__ returns
Finish ==
    /\ pc = "loop"
    /\ it > Len(prot_definitions)
    /\ reset_step_stimuli' = get_reset_step(max_steps)
    /\ init_step_stimuli' = get_init_step(max_steps)
    /\ pc' = "done"
    /\ UNCHANGED <<inputs, n_stims, max_steps, stims_hoc, save_recs,
                   extra_recs_vars, extra_recs, it, exception>>

Next == IterateProtocol \/ RaiseLookupError \/ Finish

Spec == Init /\ [][Next]_vars

SpecRecs == InitRecs /\ [][Next]_vars


(***************************************************************************)
(* The notions the properties are stated in, computed from the arguments   *)
(* of __init__ alone.                                                      *)
(***************************************************************************)
IsType(prot, t) == "type" \in DOMAIN prot /\ prot.type = t

SynapseOnly(prot) == IsType(prot, "Vecstim") \/ IsType(prot, "Netstim")

Dispatchable(prot) ==
    \/ IsType(prot, "StepProtocol")
    \/ IsType(prot, "RampProtocol")
    \/ (add_synapses /\ SynapseOnly(prot))

\* the dispatchable protocols among the first i of the mapping
DispatchableUpTo(i) == {j \in 1..i : Dispatchable(prot_definitions[j])}

NumDispatchable == Cardinality(DispatchableUpTo(Len(prot_definitions)))

\* the position in the mapping of the j-th dispatchable protocol
ProtOfIndex(j) ==
    CHOOSE i \in 1..Len(prot_definitions) :
        Dispatchable(prot_definitions[i]) /\ Cardinality(DispatchableUpTo(i)) = j

KindOf(prot) ==
    CASE prot.type = "StepProtocol" -> "step"
      [] prot.type = "RampProtocol" -> "ramp"
      [] prot.type = "Vecstim" -> "vecstim"
      [] prot.type = "Netstim" -> "netstim"

\* the loop is about to process the protocol at position it
Reached == pc = "loop" /\ it <= Len(prot_definitions)

StepProtocols ==
    {i \in 1..Len(prot_definitions) : IsType(prot_definitions[i], "StepProtocol")}

\* a single step record counts as one entry
StepEntryCount(prot) ==
    IF "dict" \in DOMAIN prot.stimuli.step THEN 1
    ELSE Len(prot.stimuli.step.list)

\* the largest step-entry count of a StepProtocol, 0 when there is none
LargestStepCount ==
    IF StepProtocols = {} THEN 0
    ELSE LET counts == {StepEntryCount(prot_definitions[i]) : i \in StepProtocols}
         IN CHOOSE m \in counts : \A c \in counts : c <= m

ExtraRecordingsOf(prot) ==
    IF "extra_recordings" \in DOMAIN prot THEN prot.extra_recordings ELSE << >>

\* the extra-recording entries of the first i protocols, in iteration order
RECURSIVE EntriesUpTo(_)
EntriesUpTo(i) ==
    IF i = 0 THEN << >>
    ELSE EntriesUpTo(i - 1) \o ExtraRecordingsOf(prot_definitions[i])

\* the entries the loop has met so far
Met == EntriesUpTo(it - 1)

IsFirst(E, k) == \A l \in 1..(k - 1) : E[l].name # E[k].name

\* the positions of E that carry a name for the first time
Firsts(E) == {k \in 1..Len(E) : IsFirst(E, k)}

RecognisedTypes == {"nrnseclistcomp", "somadistance", "somadistanceapic"}

\* fragment frag holds what the templates of lines 100-125 make of entry e
BuiltFrom(frag, e) ==
    /\ frag.name = e.name
    /\ frag.var = e.var
    /\ frag.record = e.type
    /\ e.type = "nrnseclistcomp" =>
         frag.seclist_name = e.seclist_name /\ frag.args = <<e.sec_index, e.comp_x>>
    /\ e.type = "somadistance" =>
         frag.seclist_name = e.seclist_name /\ frag.args = <<e.somadistance>>
    /\ e.type = "somadistanceapic" =>
         frag.args = <<apical_point_isec, e.somadistance>>

FragmentsNamed(name) == {l \in 1..Len(extra_recs) : extra_recs[l].name = name}

\* the occurrences of name among the names of the declared variable list
\* ", var1, var2, ..., var_n"
RECURSIVE Occurrences(_, _)
Occurrences(name, list) ==
    IF list = << >> THEN 0
    ELSE (IF Head(list) = name THEN 1 ELSE 0) + Occurrences(name, Tail(list))

DeclaredNames == Tail(Split(extra_recs_vars))

WellFormed(name) ==
    /\ name # << >>
    /\ \A q \in 1..(Len(name) - 1) : ~(name[q] = "," /\ name[q + 1] = " ")

(***************************************************************************)
(* C1: after construction stims_hoc holds exactly one block per             *)
(* dispatchable protocol (StepProtocol and RampProtocol always, Vecstim    *)
(* and Netstim only with add_synapses, any other or missing type none),    *)
(* the guards of the blocks are 1..k in the mapping's iteration order, the *)
(* j-th block being the one of the j-th dispatchable protocol, and         *)
(* n_stims = k.                                                            *)
(***************************************************************************)
C1_OneBlockPerDispatchable ==
    pc = "done" =>
        /\ Len(stims_hoc) = NumDispatchable
        /\ n_stims = NumDispatchable
        /\ \A j \in 1..Len(stims_hoc) :
              /\ stims_hoc[j].guard = j
              /\ stims_hoc[j].body.kind = KindOf(prot_definitions[ProtOfIndex(j)])
        /\ \A j, l \in 1..Len(stims_hoc) :
              j # l => stims_hoc[j].guard # stims_hoc[l].guard

\* two blocks around a Vecstim that is skipped because synapses are disabled
C1_Witness ==
    /\ pc = "done"
    /\ Len(prot_definitions) = 3
    /\ ~add_synapses
    /\ IsType(prot_definitions[1], "RampProtocol")
    /\ IsType(prot_definitions[2], "Vecstim")
    /\ IsType(prot_definitions[3], "StepProtocol")
    /\ n_stims = 2
    /\ stims_hoc[2].guard = 2

(***************************************************************************)
(* C2: whenever the loop is between two protocols (and after it), the      *)
(* stimulus script and the recording-save script hold the same number of   *)
(* blocks, one per dispatchable protocol processed, and the j-th block of  *)
(* each is the one of the same protocol and carries the same guard index.  *)
(***************************************************************************)
C2_SameIndexInBothScripts ==
    pc \in {"loop", "done"} =>
        /\ Len(stims_hoc) = Len(save_recs)
        /\ Len(save_recs) = Cardinality(DispatchableUpTo(it - 1))
        /\ \A j \in 1..Len(save_recs) :
              /\ save_recs[j].guard = stims_hoc[j].guard
              /\ stims_hoc[j].body.kind = KindOf(prot_definitions[ProtOfIndex(j)])
              /\ save_recs[j].writes[1].path =
                    <<"hoc_recordings/">> \o mtype \o <<".">>
                        \o prot_name(ProtOfIndex(j)) \o <<".soma.v.dat">>

\* mid-iteration: two protocols dispatched, a third still to be processed
C2_Witness ==
    /\ Reached
    /\ it = 3
    /\ Len(stims_hoc) = 2
    /\ save_recs[2].guard = 2
    /\ stims_hoc[2].guard = 2

(***************************************************************************)
(* C3 as stated: after construction max_steps is the largest step-entry    *)
(* count of a StepProtocol, and 1 when the mapping holds no StepProtocol.  *)
(***************************************************************************)
C3_MaxStepsFloorOne ==
    pc = "done" =>
        max_steps = (IF StepProtocols = {} THEN 1 ELSE LargestStepCount)

(***************************************************************************)
(* C3 amended: after construction max_steps is the largest step-entry      *)
(* count of a StepProtocol, and 0 when the mapping holds no StepProtocol.  *)
(***************************************************************************)
C3_MaxStepsIsLargestCount ==
    pc = "done" => max_steps = LargestStepCount

\* a StepProtocol of two entries followed by one of a single entry
C3_Witness ==
    /\ pc = "done"
    /\ \E i, j \in StepProtocols :
          /\ i < j
          /\ StepEntryCount(prot_definitions[i]) = 2
          /\ StepEntryCount(prot_definitions[j]) = 1
    /\ max_steps = 2

\* the names among the entries met so far are all well formed
MetWellFormed == \A k \in 1..Len(Met) : WellFormed(Met[k].name)

(***************************************************************************)
(* C4 as stated: each distinct name among the extra-recording entries met  *)
(* gets exactly one fragment in extra_recs, built from the first entry     *)
(* carrying the name, and is declared exactly once in extra_recs_vars;     *)
(* later entries with the name add nothing.                                *)
(***************************************************************************)
C4_OneFragmentPerName ==
    pc \in {"loop", "done"} =>
        /\ \A k \in Firsts(Met) :
              /\ Cardinality(FragmentsNamed(Met[k].name)) = 1
              /\ \A l \in FragmentsNamed(Met[k].name) : BuiltFrom(extra_recs[l], Met[k])
              /\ Occurrences(Met[k].name, DeclaredNames) = 1
        /\ Len(extra_recs) = Cardinality(Firsts(Met))
        /\ Len(DeclaredNames) = Cardinality(Firsts(Met))

(***************************************************************************)
(* C4 amended: provided every name met is non-empty and does not contain   *)
(* ", ", each distinct name is declared exactly once in extra_recs_vars    *)
(* and gets exactly one fragment in extra_recs, built from the first entry *)
(* carrying the name, when that entry's type is one of nrnseclistcomp,     *)
(* somadistance, somadistanceapic, and no fragment when it is not; later   *)
(* entries with the name add nothing.                                      *)
(***************************************************************************)
C4_OneFragmentPerWellFormedName ==
    (pc \in {"loop", "done"} /\ MetWellFormed) =>
        /\ \A k \in Firsts(Met) :
              /\ Cardinality(FragmentsNamed(Met[k].name)) =
                    (IF Met[k].type \in RecognisedTypes THEN 1 ELSE 0)
              /\ \A l \in FragmentsNamed(Met[k].name) : BuiltFrom(extra_recs[l], Met[k])
              /\ Occurrences(Met[k].name, DeclaredNames) = 1
        /\ Len(extra_recs) =
              Cardinality({k \in Firsts(Met) : Met[k].type \in RecognisedTypes})
        /\ Len(DeclaredNames) = Cardinality(Firsts(Met))

\* the same name in two protocols, with different other fields
C4_Witness ==
    /\ pc = "done"
    /\ MetWellFormed
    /\ Len(prot_definitions) = 2
    /\ Len(ExtraRecordingsOf(prot_definitions[1])) = 1
    /\ Len(ExtraRecordingsOf(prot_definitions[2])) = 1
    /\ Met[1].name = Met[2].name
    /\ Met[1].type = "somadistance"
    /\ Met[2].type = "nrnseclistcomp"
    /\ Len(extra_recs) = 1
    /\ extra_recs[1].record = "somadistance"

\* the registry add_extra_recs makes of the entries of the first i protocols
RegistryUpTo(i) ==
    add_extra_recs([vars |-> << >>, recs |-> << >>], EntriesUpTo(i),
                   apical_point_isec)

(***************************************************************************)
(* C5: with synapses disabled, processing a Vecstim or Netstim protocol    *)
(* leaves stims_hoc, save_recs and n_stims as they are and goes on to the  *)
(* next protocol, while the registry (extra_recs_vars, extra_recs) becomes *)
(* what add_extra_recs makes of all entries met so far, this protocol's    *)
(* included.                                                               *)
(***************************************************************************)
C5_SynapseProtocolOnlyMerges ==
    [][ (Reached /\ ~add_synapses /\ SynapseOnly(current)) =>
            /\ stims_hoc' = stims_hoc
            /\ save_recs' = save_recs
            /\ n_stims' = n_stims
            /\ pc' = "loop"
            /\ it' = it + 1
            /\ extra_recs_vars' = RegistryUpTo(it).vars
            /\ extra_recs' = RegistryUpTo(it).recs ]_vars

\* a Vecstim with extra recordings was just processed with synapses disabled
C5_Witness ==
    /\ pc = "loop"
    /\ it = 2
    /\ ~add_synapses
    /\ IsType(prot_definitions[1], "Vecstim")
    /\ ExtraRecordingsOf(prot_definitions[1]) # << >>
    /\ n_stims = 0
    /\ stims_hoc = << >>
    /\ save_recs = << >>
    /\ Len(extra_recs) = 1

(***************************************************************************)
(* C6: after construction reset_step_stimuli and init_step_stimuli each    *)
(* hold exactly max(M, 1) step-stimulus objects, every index 0..max(M,1)-1 *)
(* once, M being the largest step-entry count of a StepProtocol (0 when    *)
(* there is none); in the reset fragment each has zero duration, delay and *)
(* amplitude.                                                              *)
(***************************************************************************)
C6_StepObjectsDeclaredAndReset ==
    pc = "done" =>
        LET n == IF LargestStepCount > 1 THEN LargestStepCount ELSE 1
        IN /\ Len(reset_step_stimuli) = n
           /\ Len(init_step_stimuli) = n
           /\ \A i \in 0..(n - 1) :
                 /\ Cardinality({k \in 1..n : reset_step_stimuli[k].i = i}) = 1
                 /\ Cardinality({k \in 1..n : init_step_stimuli[k] = i}) = 1
           /\ \A k \in 1..n :
                 /\ reset_step_stimuli[k].dur = 0
                 /\ reset_step_stimuli[k].del = 0
                 /\ reset_step_stimuli[k].amp = 0

\* the StepProtocol with the most entries comes last
C6_Witness ==
    /\ pc = "done"
    /\ \E i, j \in StepProtocols :
          /\ i < j
          /\ StepEntryCount(prot_definitions[i]) = 1
          /\ StepEntryCount(prot_definitions[j]) = 2
    /\ Len(reset_step_stimuli) = 2
    /\ Len(init_step_stimuli) = 2

\* the protocol lacks the stimuli sub-field its type requires
LacksSubfield(prot) ==
    \/ IsType(prot, "StepProtocol")
       /\ ("stimuli" \notin DOMAIN prot \/ "step" \notin DOMAIN prot.stimuli)
    \/ IsType(prot, "RampProtocol")
       /\ ("stimuli" \notin DOMAIN prot \/ "ramp" \notin DOMAIN prot.stimuli)

(***************************************************************************)
(* C7: when the loop reaches a dispatchable protocol that lacks the        *)
(* stimuli sub-field of its type, __init__ raises KeyError there: nothing  *)
(* is appended to the scripts, the reset and init fragments are never      *)
(* built, and nothing happens afterwards (no later protocol is processed,  *)
(* __init__ never returns).  A protocol that is not dispatchable never     *)
(* raises: the loop goes on to the next protocol.                          *)
(***************************************************************************)
C7_MissingSubfieldIsFatal ==
    [][ /\ (Reached /\ Dispatchable(current) /\ LacksSubfield(current)) =>
              /\ pc' = "raised"
              /\ exception' = "KeyError"
              /\ it' = it
              /\ stims_hoc' = stims_hoc
              /\ save_recs' = save_recs
              /\ reset_step_stimuli' = << >>
              /\ init_step_stimuli' = << >>
        /\ (Reached /\ ~Dispatchable(current)) =>
              /\ pc' = "loop"
              /\ exception' = ""
              /\ it' = it + 1
        /\ pc # "raised" ]_vars

\* a StepProtocol without "step" raised in second position, a third protocol
\* is left unprocessed
C7_Witness ==
    /\ pc = "raised"
    /\ exception = "KeyError"
    /\ it = 2
    /\ Len(prot_definitions) = 3
    /\ IsType(prot_definitions[2], "StepProtocol")
    /\ "step" \notin DOMAIN prot_definitions[2].stimuli
    /\ Len(stims_hoc) = 1
    /\ reset_step_stimuli = << >>

(***************************************************************************)
(* C8: the recording-save block of a dispatchable protocol of name p, with *)
(* cell type c and extra_recordings E, holds in order one write to         *)
(* hoc_recordings/c.p.soma.v.dat and one write per entry of E, in list     *)
(* order and repeated names included, the write of the entry of name n and *)
(* variable v going to hoc_recordings/c.p.n.v.dat.                         *)
(***************************************************************************)
C8_SavePaths ==
    pc \in {"loop", "done"} =>
        \A j \in 1..Len(save_recs) :
            LET i == ProtOfIndex(j)
                E == ExtraRecordingsOf(prot_definitions[i])
                w == save_recs[j].writes
            IN /\ Len(w) = 1 + Len(E)
               /\ w[1].path = <<"hoc_recordings/">> \o mtype \o <<".">>
                                 \o prot_name(i) \o <<".soma.v.dat">>
               /\ \A k \in 1..Len(E) :
                     w[k + 1].path =
                         <<"hoc_recordings/">> \o mtype \o <<".">>
                             \o prot_name(i) \o <<".">> \o E[k].name
                             \o <<".">> \o E[k].var \o <<".dat">>

\* a block of three writes, the two extra recordings under the same name
C8_Witness ==
    /\ pc = "done"
    /\ Len(save_recs) = 2
    /\ Len(save_recs[2].writes) = 3
    /\ LET E == ExtraRecordingsOf(prot_definitions[ProtOfIndex(2)])
       IN /\ Len(E) = 2
          /\ E[1].name = E[2].name
          /\ E[1].var # E[2].var
          /\ E[1].name = NameA

\* the time/amplitude points of a ramp block, in the order they are appended
Envelope(body) ==
    [k \in 1..Len(body.ramp_times) |-> <<body.ramp_times[k], body.ramp_amps[k]>>]

(***************************************************************************)
(* C9: the block of a RampProtocol of ramp delay d, duration u, start      *)
(* amplitude a, end amplitude b and total duration T holds the six points  *)
(* (0,0), (d,0), (d,a), (d+u,b), (d+u,0), (T,0) in that order, and its     *)
(* stop time is T.                                                         *)
(***************************************************************************)
C9_RampEnvelope ==
    pc \in {"loop", "done"} =>
        \A j \in 1..Len(stims_hoc) :
            LET prot == prot_definitions[ProtOfIndex(j)]
            IN IsType(prot, "RampProtocol") =>
                 LET r == prot.stimuli.ramp
                     d == r.ramp_delay
                     u == r.ramp_duration
                 IN /\ Envelope(stims_hoc[j].body) =
                          << <<0, 0>>, <<d, 0>>, <<d, r.ramp_amplitude_start>>,
                             <<d + u, r.ramp_amplitude_end>>, <<d + u, 0>>,
                             <<r.totduration, 0>> >>
                    /\ stims_hoc[j].body.tstop = r.totduration

\* delay 10, duration 20, amplitudes 0.1 to 0.5 (in units of 0.1), total 50
C9_Witness ==
    /\ pc = "done"
    /\ \E j \in 1..Len(stims_hoc) :
          /\ IsType(prot_definitions[ProtOfIndex(j)], "RampProtocol")
          /\ prot_definitions[ProtOfIndex(j)].stimuli.ramp = RampExample
          /\ Envelope(stims_hoc[j].body) =
                << <<0, 0>>, <<10, 0>>, <<10, 1>>, <<30, 5>>, <<30, 0>>, <<50, 0>> >>
          /\ stims_hoc[j].body.tstop = 50

(***************************************************************************)
(* C10: after construction every step_stimulus_i assigned in a             *)
(* StepProtocol block of stims_hoc is declared in init_step_stimuli and    *)
(* zeroed in reset_step_stimuli: i is below the number of declared and of  *)
(* reset objects.                                                          *)
(***************************************************************************)
C10_StepIndicesDeclared ==
    pc = "done" =>
        \A j \in 1..Len(stims_hoc) :
            stims_hoc[j].body.kind = "step" =>
                \A k \in 1..Len(stims_hoc[j].body.steps) :
                    LET i == stims_hoc[j].body.steps[k].i
                    IN /\ i < Len(init_step_stimuli)
                       /\ i < Len(reset_step_stimuli)
                       /\ \E l \in 1..Len(init_step_stimuli) :
                             init_step_stimuli[l] = i
                       /\ \E l \in 1..Len(reset_step_stimuli) :
                             /\ reset_step_stimuli[l].i = i
                             /\ reset_step_stimuli[l].amp = 0

\* the block with the most steps is followed by one with fewer
C10_Witness ==
    /\ pc = "done"
    /\ \E j, l \in 1..Len(stims_hoc) :
          /\ j < l
          /\ stims_hoc[j].body.kind = "step"
          /\ stims_hoc[l].body.kind = "step"
          /\ Len(stims_hoc[j].body.steps) = 2
          /\ Len(stims_hoc[l].body.steps) = 1
    /\ Len(init_step_stimuli) = 2

=============================================================================
